---- MODULE Spec2Model ----
(***************************************************************************)
(* A model of the terminal-text-styler crate: the three coded attribute    *)
(* enumerations, the TerminalStyle escape-code composer and the            *)
(* StyledTerminalText value with its cached output.                        *)
(*                                                                         *)
(* Strings are sequences of one-character strings; the control character   *)
(* U+001B is the single element ESC.  A u8 is a number in 0..255.  An      *)
(* Option is a sequence of length 0 (None) or 1 (Some(x)).  An enum        *)
(* variant is a record with a tag and, for the variants that carry a       *)
(* payload, the payload.                                                   *)
(***************************************************************************)
EXTENDS Integers, Sequences, FiniteSets, TLC

VARIABLES
    text,       \* StyledTerminalText.text
    style,      \* StyledTerminalText.style
    output,     \* StyledTerminalText.output : Option<String>
    ret,        \* the last StyledTerminalText operation: its argument and what it returned
    before,     \* the StyledTerminalText, and the last return, when its last setter was called
    pc,         \* position of the caller of the pure functions
    call,       \* the constructor call that made `built`
    built,      \* Option<TerminalStyle>: the style the caller holds
    result      \* the last function call on `built` or on an enum, with its value

vars == <<text, style, output, ret, before, pc, call, built, result>>

\* ------------------------------------------------------------------ bounds

MaxText == 2
MaxCodes == 2
MaxEffects == 2

\* ------------------------------------------------------------- primitives

None == <<>>
Some(x) == <<x>>

U8 == 0..255

ESC == "ESC"

Digits == <<"0", "1", "2", "3", "4", "5", "6", "7", "8", "9">>

\* u8::to_string: decimal, no leading zeros.
RECURSIVE u8_to_string(_)
u8_to_string(n) ==
    IF n < 10 THEN <<Digits[n + 1]>>
    ELSE u8_to_string(n \div 10) \o <<Digits[(n % 10) + 1]>>

\* [String]::join(sep)
RECURSIVE join(_, _)
join(strings, sep) ==
    IF Len(strings) = 0 THEN <<>>
    ELSE IF Len(strings) = 1 THEN strings[1]
    ELSE strings[1] \o sep \o join(Tail(strings), sep)

SeqsUpTo(S, n) == UNION {[1..k -> S] : k \in 0..n}

\* ------------------------------------------------------ ANSIForegroundColor

FG(tag) == [tag |-> tag]
FG256(ansi256) == [tag |-> "ANSI256", ansi256 |-> ansi256]

ANSIForegroundColor_code(self) ==
    CASE self.tag = "Black" -> 30
      [] self.tag = "Red" -> 31
      [] self.tag = "Green" -> 32
      [] self.tag = "Yellow" -> 33
      [] self.tag = "Blue" -> 34
      [] self.tag = "Magenta" -> 35
      [] self.tag = "Cyan" -> 36
      [] self.tag = "White" -> 37
      [] self.tag = "BrightBlack" -> 90
      [] self.tag = "BrightRed" -> 91
      [] self.tag = "BrightGreen" -> 92
      [] self.tag = "BrightYellow" -> 93
      [] self.tag = "BrightBlue" -> 94
      [] self.tag = "BrightMagenta" -> 95
      [] self.tag = "BrightCyan" -> 96
      [] self.tag = "BrightWhite" -> 97
      [] self.tag = "ANSI256" -> 38

\* A lookup that also answers the palette-indexed primary code, as from_256 does.
ANSIForegroundColor_from_with_palette(code) ==
    CASE code = 30 -> Some(FG("Black"))
      [] code = 31 -> Some(FG("Red"))
      [] code = 32 -> Some(FG("Green"))
      [] code = 33 -> Some(FG("Yellow"))
      [] code = 34 -> Some(FG("Blue"))
      [] code = 35 -> Some(FG("Magenta"))
      [] code = 36 -> Some(FG("Cyan"))
      [] code = 37 -> Some(FG("White"))
      [] code = 38 -> Some(FG256(0))
      [] code = 90 -> Some(FG("BrightBlack"))
      [] code = 91 -> Some(FG("BrightRed"))
      [] code = 92 -> Some(FG("BrightGreen"))
      [] code = 93 -> Some(FG("BrightYellow"))
      [] code = 94 -> Some(FG("BrightBlue"))
      [] code = 95 -> Some(FG("BrightMagenta"))
      [] code = 96 -> Some(FG("BrightCyan"))
      [] code = 97 -> Some(FG("BrightWhite"))
      [] OTHER -> None

ANSIForegroundColor_from(code) ==
    CASE code = 30 -> Some(FG("Black"))
      [] code = 31 -> Some(FG("Red"))
      [] code = 32 -> Some(FG("Green"))
      [] code = 33 -> Some(FG("Yellow"))
      [] code = 34 -> Some(FG("Blue"))
      [] code = 35 -> Some(FG("Magenta"))
      [] code = 36 -> Some(FG("Cyan"))
      [] code = 37 -> Some(FG("White"))
      [] code = 90 -> Some(FG("BrightBlack"))
      [] code = 91 -> Some(FG("BrightRed"))
      [] code = 92 -> Some(FG("BrightGreen"))
      [] code = 93 -> Some(FG("BrightYellow"))
      [] code = 94 -> Some(FG("BrightBlue"))
      [] code = 95 -> Some(FG("BrightMagenta"))
      [] code = 96 -> Some(FG("BrightCyan"))
      [] code = 97 -> Some(FG("BrightWhite"))
      [] OTHER -> None

ANSIForegroundColor_eq(self, other) ==
    ANSIForegroundColor_code(self) = ANSIForegroundColor_code(other)

ANSIForegroundColor_from_256(code, ansi_256) ==
    IF code = 38 THEN Some(FG256(ansi_256)) ELSE ANSIForegroundColor_from(code)

\* ------------------------------------------------------ ANSIBackgroundColor

BG(tag) == [tag |-> tag]
BG256(ansi256) == [tag |-> "ANSI256", ansi256 |-> ansi256]

\* A code table whose bright range kept the foreground family's numbers.
ANSIBackgroundColor_code_bright_fg(self) ==
    CASE self.tag = "Black" -> 40
      [] self.tag = "Red" -> 41
      [] self.tag = "Green" -> 42
      [] self.tag = "Yellow" -> 43
      [] self.tag = "Blue" -> 44
      [] self.tag = "Magenta" -> 45
      [] self.tag = "Cyan" -> 46
      [] self.tag = "White" -> 47
      [] self.tag = "BrightBlack" -> 90
      [] self.tag = "BrightRed" -> 91
      [] self.tag = "BrightGreen" -> 92
      [] self.tag = "BrightYellow" -> 93
      [] self.tag = "BrightBlue" -> 94
      [] self.tag = "BrightMagenta" -> 95
      [] self.tag = "BrightCyan" -> 96
      [] self.tag = "BrightWhite" -> 97
      [] self.tag = "ANSI256" -> 48

ANSIBackgroundColor_code(self) ==
    CASE self.tag = "Black" -> 40
      [] self.tag = "Red" -> 41
      [] self.tag = "Green" -> 42
      [] self.tag = "Yellow" -> 43
      [] self.tag = "Blue" -> 44
      [] self.tag = "Magenta" -> 45
      [] self.tag = "Cyan" -> 46
      [] self.tag = "White" -> 47
      [] self.tag = "BrightBlack" -> 100
      [] self.tag = "BrightRed" -> 101
      [] self.tag = "BrightGreen" -> 102
      [] self.tag = "BrightYellow" -> 103
      [] self.tag = "BrightBlue" -> 104
      [] self.tag = "BrightMagenta" -> 105
      [] self.tag = "BrightCyan" -> 106
      [] self.tag = "BrightWhite" -> 107
      [] self.tag = "ANSI256" -> 48

ANSIBackgroundColor_from(code) ==
    CASE code = 40 -> Some(BG("Black"))
      [] code = 41 -> Some(BG("Red"))
      [] code = 42 -> Some(BG("Green"))
      [] code = 43 -> Some(BG("Yellow"))
      [] code = 44 -> Some(BG("Blue"))
      [] code = 45 -> Some(BG("Magenta"))
      [] code = 46 -> Some(BG("Cyan"))
      [] code = 47 -> Some(BG("White"))
      [] code = 100 -> Some(BG("BrightBlack"))
      [] code = 101 -> Some(BG("BrightRed"))
      [] code = 102 -> Some(BG("BrightGreen"))
      [] code = 103 -> Some(BG("BrightYellow"))
      [] code = 104 -> Some(BG("BrightBlue"))
      [] code = 105 -> Some(BG("BrightMagenta"))
      [] code = 106 -> Some(BG("BrightCyan"))
      [] code = 107 -> Some(BG("BrightWhite"))
      [] OTHER -> None

ANSIBackgroundColor_eq(self, other) ==
    ANSIBackgroundColor_code(self) = ANSIBackgroundColor_code(other)

ANSIBackgroundColor_from_256(code, ansi_256) ==
    IF code = 48 THEN Some(BG256(ansi_256)) ELSE ANSIBackgroundColor_from(code)

\* ---------------------------------------------------------------- SGREffect

Effect(tag) == [tag |-> tag]
ByCode(code) == [tag |-> "ByCode", code |-> code]

SGREffect_code(self) ==
    CASE self.tag = "Normal" -> 0
      [] self.tag = "Bold" -> 1
      [] self.tag = "Faint" -> 2
      [] self.tag = "Italic" -> 3
      [] self.tag = "Underline" -> 4
      [] self.tag = "SlowBlink" -> 5
      [] self.tag = "RapidBlink" -> 6
      [] self.tag = "CrossedOut" -> 9
      [] self.tag = "ByCode" -> self.code

SGREffect_eq(self, other) == SGREffect_code(self) = SGREffect_code(other)

\* A decoder that answers an unnamed code with the default effect.
SGREffect_from_default(code) ==
    CASE code = 0 -> Effect("Normal")
      [] code = 1 -> Effect("Bold")
      [] code = 2 -> Effect("Faint")
      [] code = 3 -> Effect("Italic")
      [] code = 4 -> Effect("Underline")
      [] code = 5 -> Effect("SlowBlink")
      [] code = 6 -> Effect("RapidBlink")
      [] code = 9 -> Effect("CrossedOut")
      [] OTHER -> Effect("Normal")

SGREffect_from(code) ==
    CASE code = 0 -> Effect("Normal")
      [] code = 1 -> Effect("Bold")
      [] code = 2 -> Effect("Faint")
      [] code = 3 -> Effect("Italic")
      [] code = 4 -> Effect("Underline")
      [] code = 5 -> Effect("SlowBlink")
      [] code = 6 -> Effect("RapidBlink")
      [] code = 9 -> Effect("CrossedOut")
      [] OTHER -> ByCode(code)

\* ------------------------------------------------------------ TerminalStyle

\* A TerminalStyle is a record [codes, command].

\* A renderer that writes the default code 0 for an empty code list.
TerminalStyle_make_command_zero(codes) ==
    LET code_strings == [i \in 1..Len(codes) |-> u8_to_string(codes[i])]
        code == IF Len(codes) = 0 THEN <<"0">> ELSE join(code_strings, <<";">>)
        beginning == <<ESC, "[">>
    IN  beginning \o code \o <<"m">>

TerminalStyle_make_command(codes) ==
    LET code_strings == [i \in 1..Len(codes) |-> u8_to_string(codes[i])]
        code == join(code_strings, <<";">>)
        beginning == <<ESC, "[">>
    IN  beginning \o code \o <<"m">>

TerminalStyle_from(codes) ==
    LET command == TerminalStyle_make_command(codes)
    IN  [codes |-> codes, command |-> command]

\* A constructor that appends the background before the foreground.
TerminalStyle_new_background_first(effects, foreground, background) ==
    LET codes0 == [i \in 1..Len(effects) |-> SGREffect_code(effects[i])]
        codes1 ==
            IF background # None
            THEN codes0 \o <<ANSIBackgroundColor_code(background[1])>>
                 \o (IF background[1].tag = "ANSI256"
                     THEN <<5, background[1].ansi256>> ELSE <<>>)
            ELSE codes0
        codes2 ==
            IF foreground # None
            THEN codes1 \o <<ANSIForegroundColor_code(foreground[1])>>
                 \o (IF foreground[1].tag = "ANSI256"
                     THEN <<5, foreground[1].ansi256>> ELSE <<>>)
            ELSE codes1
    IN  TerminalStyle_from(codes2)

TerminalStyle_new(effects, foreground, background) ==
    LET codes0 == [i \in 1..Len(effects) |-> SGREffect_code(effects[i])]
        codes1 ==
            IF foreground # None
            THEN codes0 \o <<ANSIForegroundColor_code(foreground[1])>>
                 \o (IF foreground[1].tag = "ANSI256"
                     THEN <<5, foreground[1].ansi256>> ELSE <<>>)
            ELSE codes0
        codes2 ==
            IF background # None
            THEN codes1 \o <<ANSIBackgroundColor_code(background[1])>>
                 \o (IF background[1].tag = "ANSI256"
                     THEN <<5, background[1].ansi256>> ELSE <<>>)
            ELSE codes1
    IN  TerminalStyle_from(codes2)

TerminalStyle_new_empty == TerminalStyle_new(<<Effect("Normal")>>, None, None)

TerminalStyle_codes(self) == self.codes

TerminalStyle_command(self) == self.command

\* A decoder that leaves out the codes of the two colour families.
TerminalStyle_styles_effects_only(self) ==
    LET RECURSIVE keep(_)
        keep(codes) ==
            IF Len(codes) = 0 THEN <<>>
            ELSE IF ANSIForegroundColor_from(Head(codes)) # None
                    \/ ANSIBackgroundColor_from(Head(codes)) # None
                 THEN keep(Tail(codes))
                 ELSE <<SGREffect_from(Head(codes))>> \o keep(Tail(codes))
    IN  keep(self.codes)

\* A decoder that reports every code as the raw ByCode variant.
TerminalStyle_styles_raw(self) ==
    [i \in 1..Len(self.codes) |-> ByCode(self.codes[i])]

TerminalStyle_styles(self) ==
    [i \in 1..Len(self.codes) |-> SGREffect_from(self.codes[i])]

\* A lookup that stops at the first code of the family.
TerminalStyle_foreground_first(self) ==
    LET RECURSIVE scan(_)
        scan(i) ==
            IF i > Len(self.codes) THEN None
            ELSE IF ANSIForegroundColor_from(self.codes[i]) # None
                 THEN ANSIForegroundColor_from(self.codes[i])
                 ELSE scan(i + 1)
    IN  scan(1)

TerminalStyle_foreground(self) ==
    LET RECURSIVE scan(_, _)
        scan(i, possible_foreground) ==
            IF i > Len(self.codes) THEN possible_foreground
            ELSE scan(i + 1,
                      IF ANSIForegroundColor_from(self.codes[i]) # None
                      THEN ANSIForegroundColor_from(self.codes[i])
                      ELSE possible_foreground)
    IN  scan(1, None)

TerminalStyle_background(self) ==
    LET RECURSIVE scan(_, _)
        scan(i, possible_background) ==
            IF i > Len(self.codes) THEN possible_background
            ELSE scan(i + 1,
                      IF ANSIBackgroundColor_from(self.codes[i]) # None
                      THEN ANSIBackgroundColor_from(self.codes[i])
                      ELSE possible_background)
    IN  scan(1, None)

\* A wrap that closes the text with the style's own command.
TerminalStyle_wrap_own_end(self, txt) ==
    LET start == TerminalStyle_command(self)
        end == TerminalStyle_command(self)
    IN  start \o txt \o end

TerminalStyle_wrap(self, txt) ==
    LET start == TerminalStyle_command(self)
        empty == TerminalStyle_new_empty
        end == TerminalStyle_command(empty)
    IN  start \o txt \o end

\* A clone that yields the default (no colour) style.
TerminalStyle_clone_default(self) == TerminalStyle_new_empty

TerminalStyle_clone(self) == TerminalStyle_from(self.codes)

TerminalStyle_eq(self, other) == self.command = other.command

PresetNames ==
    {"no_color", "reset",
     "black", "red", "green", "yellow", "blue", "magenta", "cyan", "white",
     "bright_black", "bright_red", "bright_green", "bright_yellow",
     "bright_blue", "bright_magenta", "bright_cyan", "bright_white",
     "italic_black", "italic_red", "italic_green", "italic_yellow",
     "italic_blue", "italic_magenta", "italic_cyan", "italic_white",
     "red_background", "blue_background", "green_background", "yellow_background",
     "normal_bright_yellow", "blink"}

Normal1(tag) == TerminalStyle_new(<<Effect("Normal")>>, Some(FG(tag)), None)
Bold1(tag) == TerminalStyle_new(<<Effect("Bold")>>, Some(FG(tag)), None)
Italic1(tag) == TerminalStyle_new(<<Effect("Italic")>>, Some(FG(tag)), None)

TerminalStyle_preset(name) ==
    CASE name = "no_color" -> TerminalStyle_new_empty
      [] name = "reset" -> TerminalStyle_new_empty
      [] name = "black" -> Normal1("Black")
      [] name = "red" -> Normal1("Red")
      [] name = "green" -> Normal1("Green")
      [] name = "yellow" -> Normal1("Yellow")
      [] name = "blue" -> Normal1("Blue")
      [] name = "magenta" -> Normal1("Magenta")
      [] name = "cyan" -> Normal1("Cyan")
      [] name = "white" -> Normal1("White")
      [] name = "bright_black" -> Bold1("BrightBlack")
      [] name = "bright_red" -> Bold1("BrightRed")
      [] name = "bright_green" -> Bold1("BrightGreen")
      [] name = "bright_yellow" -> Bold1("BrightYellow")
      [] name = "bright_blue" -> Bold1("BrightBlue")
      [] name = "bright_magenta" -> Bold1("BrightMagenta")
      [] name = "bright_cyan" -> Bold1("BrightCyan")
      [] name = "bright_white" -> Bold1("BrightWhite")
      [] name = "italic_black" -> Italic1("Black")
      [] name = "italic_red" -> Italic1("Red")
      [] name = "italic_green" -> Italic1("Green")
      [] name = "italic_yellow" -> Italic1("Yellow")
      [] name = "italic_blue" -> Italic1("Blue")
      [] name = "italic_magenta" -> Italic1("Magenta")
      [] name = "italic_cyan" -> Italic1("Cyan")
      [] name = "italic_white" -> Italic1("White")
      [] name = "red_background" ->
            TerminalStyle_new(<<Effect("Bold")>>, Some(FG("BrightWhite")), Some(BG("Red")))
      [] name = "blue_background" ->
            TerminalStyle_new(<<Effect("Bold")>>, Some(FG("BrightWhite")), Some(BG("Blue")))
      [] name = "green_background" ->
            TerminalStyle_new(<<Effect("Normal")>>, Some(FG("Black")), Some(BG("Green")))
      [] name = "yellow_background" ->
            TerminalStyle_new(<<Effect("Normal")>>, Some(FG("Black")), Some(BG("BrightYellow")))
      [] name = "normal_bright_yellow" -> Normal1("BrightYellow")
      [] name = "blink" -> TerminalStyle_new(<<Effect("SlowBlink")>>, None, None)

\* ------------------------------------------------------- StyledTerminalText

\* A StyledTerminalText is a record [text, style, output].

StyledTerminalText_update_output(self) ==
    [self EXCEPT !.output = Some(TerminalStyle_wrap(self.style, self.text))]

StyledTerminalText_new(txt, sty) ==
    LET new_instance == [text |-> txt, style |-> sty, output |-> None]
    IN  StyledTerminalText_update_output(new_instance)

StyledTerminalText_text(self) == self.text

StyledTerminalText_style(self) == self.style

StyledTerminalText_output(self) ==
    IF self.output # None THEN self.output[1] ELSE self.text

\* A setter that leaves the cached output as it was.
StyledTerminalText_change_text_to_stale(self, new_text) ==
    LET current_text == self.text
        changed == [self EXCEPT !.text = new_text]
    IN  [self |-> changed, returned |-> current_text]

\* A setter that reads the value to return after it has assigned the new one.
StyledTerminalText_change_text_to_returns_new(self, new_text) ==
    LET changed == [self EXCEPT !.text = new_text]
        current_text == changed.text
    IN  [self |-> StyledTerminalText_update_output(changed), returned |-> current_text]

\* The object after the call, and the value the call returns.
StyledTerminalText_change_text_to(self, new_text) ==
    LET current_text == self.text
        changed == [self EXCEPT !.text = new_text]
    IN  [self |-> StyledTerminalText_update_output(changed), returned |-> current_text]

\* A setter that rebuilds the value from the new style alone.
StyledTerminalText_change_style_to_fresh(self, new_style) ==
    LET current_color == TerminalStyle_clone(self.style)
    IN  [self |-> StyledTerminalText_new(<<>>, new_style), returned |-> current_color]

\* A setter that clones the style to return after it has assigned the new one.
StyledTerminalText_change_style_to_returns_new(self, new_style) ==
    LET changed == [self EXCEPT !.style = new_style]
        current_color == TerminalStyle_clone(changed.style)
    IN  [self |-> StyledTerminalText_update_output(changed), returned |-> current_color]

StyledTerminalText_change_style_to(self, new_style) ==
    LET current_color == TerminalStyle_clone(self.style)
        changed == [self EXCEPT !.style = new_style]
    IN  [self |-> StyledTerminalText_update_output(changed), returned |-> current_color]

\* ------------------------------------------------------------------ inputs

TextChars == {"a", "0"}

Texts == SeqsUpTo(TextChars, MaxText)

\* Codes for raw code lists: effects, both colour families (two codes of
\* each, so that a later one can override an earlier one), the palette
\* primary code 38, and one-, two- and three-digit numbers.
CodeSample == {0, 1, 5, 33, 38, 41, 93, 107}

CodeLists == SeqsUpTo(CodeSample, MaxCodes)

EffectSample == {Effect("Normal"), Effect("Bold"), Effect("SlowBlink"), ByCode(93)}

EffectLists == SeqsUpTo(EffectSample, MaxEffects)

ForegroundNames ==
    {"Black", "Red", "Green", "Yellow", "Blue", "Magenta", "Cyan", "White",
     "BrightBlack", "BrightRed", "BrightGreen", "BrightYellow",
     "BrightBlue", "BrightMagenta", "BrightCyan", "BrightWhite"}

EffectNames ==
    {"Normal", "Bold", "Faint", "Italic", "Underline", "SlowBlink",
     "RapidBlink", "CrossedOut"}

PaletteSample == {0, 33, 183, 255}

AllForegrounds == {FG(n) : n \in ForegroundNames} \cup {FG256(x) : x \in PaletteSample}

AllBackgrounds == {BG(n) : n \in ForegroundNames} \cup {BG256(x) : x \in PaletteSample}

AllEffects == {Effect(n) : n \in EffectNames} \cup {ByCode(c) : c \in U8}

\* Effects compared with one another: the named ones and ByCode variants
\* whose code is, and is not, the code of a named one.
EffectPairSample == {Effect(n) : n \in EffectNames} \cup {ByCode(c) : c \in {1, 5, 93}}

\* Palette indexes include numbers that are also codes of a colour family.
ForegroundSample ==
    {None, Some(FG("Yellow")), Some(FG("BrightYellow")),
     Some(FG256(183)), Some(FG256(33)), Some(FG256(41)), Some(FG256(9))}

BackgroundSample ==
    {None, Some(BG("Red")), Some(BG256(190)), Some(BG256(33)), Some(BG256(41))}

\* Code lists of the second operand of a comparison: the empty list and
\* [0], lists whose decimal renderings share digits (1;1 and 11), and the
\* lists of the crate's own equality tests.
OtherLists ==
    {<<>>, <<0>>, <<1>>, <<11>>, <<1, 1>>, <<1, 11>>, <<11, 1>>, <<1, 93>>, <<0, 33, 41>>}

OtherStyles == {TerminalStyle_from(cs) : cs \in OtherLists}

\* Styles handed to a StyledTerminalText.
SampleStyles ==
    {TerminalStyle_from(<<>>),
     TerminalStyle_new_empty,
     TerminalStyle_preset("bright_yellow"),
     TerminalStyle_from(<<0, 33, 41>>),
     TerminalStyle_new(<<Effect("Bold")>>, Some(FG256(183)), Some(BG256(190)))}

\* ------------------------------------------------ StyledTerminalText machine

Self == [text |-> text, style |-> style, output |-> output]

Snapshot(obj, r) ==
    [text |-> obj.text, style |-> obj.style, output |-> obj.output, ret |-> r]

Idle ==
    /\ pc = "start"
    /\ call = [fn |-> "none"]
    /\ built = None
    /\ result = [fn |-> "none"]

Holds(obj) ==
    /\ text = obj.text
    /\ style = obj.style
    /\ output = obj.output

Init ==
    /\ \E txt \in Texts, sty \in SampleStyles :
          /\ Holds(StyledTerminalText_new(txt, sty))
          /\ before = Snapshot(StyledTerminalText_new(txt, sty), [op |-> "new"])
    /\ ret = [op |-> "new"]
    /\ Idle

ChangeTextTo(new_text) ==
    LET r == StyledTerminalText_change_text_to(Self, new_text)
    IN  /\ text' = r.self.text
        /\ style' = r.self.style
        /\ output' = r.self.output
        /\ ret' = [op |-> "change_text_to", arg |-> new_text, value |-> r.returned]
        /\ before' = Snapshot(Self, ret)
        /\ UNCHANGED <<pc, call, built, result>>

ChangeStyleTo(new_style) ==
    LET r == StyledTerminalText_change_style_to(Self, new_style)
    IN  /\ text' = r.self.text
        /\ style' = r.self.style
        /\ output' = r.self.output
        /\ ret' = [op |-> "change_style_to", arg |-> new_style, value |-> r.returned]
        /\ before' = Snapshot(Self, ret)
        /\ UNCHANGED <<pc, call, built, result>>

\* The read accessors take &self: they return a value and assign nothing.
GetText ==
    /\ ret' = [op |-> "text", value |-> StyledTerminalText_text(Self)]
    /\ UNCHANGED <<text, style, output, before, pc, call, built, result>>

GetStyle ==
    /\ ret' = [op |-> "style", value |-> StyledTerminalText_style(Self)]
    /\ UNCHANGED <<text, style, output, before, pc, call, built, result>>

GetOutput ==
    /\ ret' = [op |-> "output", value |-> StyledTerminalText_output(Self)]
    /\ UNCHANGED <<text, style, output, before, pc, call, built, result>>

Next ==
    \/ \E new_text \in Texts : ChangeTextTo(new_text)
    \/ \E new_style \in SampleStyles : ChangeStyleTo(new_style)
    \/ GetText
    \/ GetStyle
    \/ GetOutput

Spec == Init /\ [][Next]_vars

\* ---------------------------------------------- calls of the pure functions
\* A caller that builds one style (pc "start" to "built") and calls one
\* method on it (pc "built" to "done"), or calls one function of an
\* enumeration (pc "start" to "done").

object == <<text, style, output, ret, before>>

InitStyle ==
    /\ Holds(StyledTerminalText_new(<<>>, TerminalStyle_new_empty))
    /\ before = Snapshot(StyledTerminalText_new(<<>>, TerminalStyle_new_empty), [op |-> "new"])
    /\ ret = [op |-> "new"]
    /\ Idle

From(codes) ==
    /\ pc = "start"
    /\ pc' = "built"
    /\ call' = [fn |-> "from", codes |-> codes]
    /\ built' = Some(TerminalStyle_from(codes))
    /\ UNCHANGED <<result, object>>

New(effects, foreground, background) ==
    /\ pc = "start"
    /\ pc' = "built"
    /\ call' = [fn |-> "new", effects |-> effects, foreground |-> foreground,
                background |-> background]
    /\ built' = Some(TerminalStyle_new(effects, foreground, background))
    /\ UNCHANGED <<result, object>>

NewEmpty ==
    /\ pc = "start"
    /\ pc' = "built"
    /\ call' = [fn |-> "new_empty"]
    /\ built' = Some(TerminalStyle_new_empty)
    /\ UNCHANGED <<result, object>>

Preset(name) ==
    /\ pc = "start"
    /\ pc' = "built"
    /\ call' = [fn |-> "preset", name |-> name]
    /\ built' = Some(TerminalStyle_preset(name))
    /\ UNCHANGED <<result, object>>

Wrap(txt) ==
    /\ pc = "built"
    /\ pc' = "done"
    /\ result' = [fn |-> "wrap", text |-> txt,
                  value |-> TerminalStyle_wrap(built[1], txt)]
    /\ UNCHANGED <<call, built, object>>

Styles ==
    /\ pc = "built"
    /\ pc' = "done"
    /\ result' = [fn |-> "styles", value |-> TerminalStyle_styles(built[1])]
    /\ UNCHANGED <<call, built, object>>

Foreground ==
    /\ pc = "built"
    /\ pc' = "done"
    /\ result' = [fn |-> "foreground", value |-> TerminalStyle_foreground(built[1])]
    /\ UNCHANGED <<call, built, object>>

Background ==
    /\ pc = "built"
    /\ pc' = "done"
    /\ result' = [fn |-> "background", value |-> TerminalStyle_background(built[1])]
    /\ UNCHANGED <<call, built, object>>

Clone ==
    /\ pc = "built"
    /\ pc' = "done"
    /\ result' = [fn |-> "clone", value |-> TerminalStyle_clone(built[1])]
    /\ UNCHANGED <<call, built, object>>

Eq(other) ==
    /\ pc = "built"
    /\ pc' = "done"
    /\ result' = [fn |-> "eq", other |-> other,
                  value |-> TerminalStyle_eq(built[1], other)]
    /\ UNCHANGED <<call, built, object>>

ForegroundCode(v) ==
    /\ pc = "start"
    /\ pc' = "done"
    /\ result' = [fn |-> "ANSIForegroundColor::code", self |-> v,
                  value |-> ANSIForegroundColor_code(v)]
    /\ UNCHANGED <<call, built, object>>

ForegroundFrom(code) ==
    /\ pc = "start"
    /\ pc' = "done"
    /\ result' = [fn |-> "ANSIForegroundColor::from", code |-> code,
                  value |-> ANSIForegroundColor_from(code)]
    /\ UNCHANGED <<call, built, object>>

ForegroundFrom256(code, ansi_256) ==
    /\ pc = "start"
    /\ pc' = "done"
    /\ result' = [fn |-> "ANSIForegroundColor::from_256", code |-> code,
                  ansi_256 |-> ansi_256,
                  value |-> ANSIForegroundColor_from_256(code, ansi_256)]
    /\ UNCHANGED <<call, built, object>>

BackgroundCode(v) ==
    /\ pc = "start"
    /\ pc' = "done"
    /\ result' = [fn |-> "ANSIBackgroundColor::code", self |-> v,
                  value |-> ANSIBackgroundColor_code(v)]
    /\ UNCHANGED <<call, built, object>>

BackgroundFrom(code) ==
    /\ pc = "start"
    /\ pc' = "done"
    /\ result' = [fn |-> "ANSIBackgroundColor::from", code |-> code,
                  value |-> ANSIBackgroundColor_from(code)]
    /\ UNCHANGED <<call, built, object>>

BackgroundFrom256(code, ansi_256) ==
    /\ pc = "start"
    /\ pc' = "done"
    /\ result' = [fn |-> "ANSIBackgroundColor::from_256", code |-> code,
                  ansi_256 |-> ansi_256,
                  value |-> ANSIBackgroundColor_from_256(code, ansi_256)]
    /\ UNCHANGED <<call, built, object>>

EffectCode(v) ==
    /\ pc = "start"
    /\ pc' = "done"
    /\ result' = [fn |-> "SGREffect::code", self |-> v, value |-> SGREffect_code(v)]
    /\ UNCHANGED <<call, built, object>>

EffectFrom(code) ==
    /\ pc = "start"
    /\ pc' = "done"
    /\ result' = [fn |-> "SGREffect::from", code |-> code,
                  value |-> SGREffect_from(code)]
    /\ UNCHANGED <<call, built, object>>

ForegroundEq(a, b) ==
    /\ pc = "start"
    /\ pc' = "done"
    /\ result' = [fn |-> "ANSIForegroundColor::eq", self |-> a, other |-> b,
                  value |-> ANSIForegroundColor_eq(a, b)]
    /\ UNCHANGED <<call, built, object>>

BackgroundEq(a, b) ==
    /\ pc = "start"
    /\ pc' = "done"
    /\ result' = [fn |-> "ANSIBackgroundColor::eq", self |-> a, other |-> b,
                  value |-> ANSIBackgroundColor_eq(a, b)]
    /\ UNCHANGED <<call, built, object>>

EffectEq(a, b) ==
    /\ pc = "start"
    /\ pc' = "done"
    /\ result' = [fn |-> "SGREffect::eq", self |-> a, other |-> b,
                  value |-> SGREffect_eq(a, b)]
    /\ UNCHANGED <<call, built, object>>

NextStyle ==
    \/ \E codes \in CodeLists : From(codes)
    \/ \E effects \in EffectLists, foreground \in ForegroundSample,
          background \in BackgroundSample : New(effects, foreground, background)
    \/ NewEmpty
    \/ \E name \in PresetNames : Preset(name)
    \/ \E txt \in Texts : Wrap(txt)
    \/ Styles
    \/ Foreground
    \/ Background
    \/ Clone
    \/ \E other \in OtherStyles : Eq(other)
    \/ \E v \in AllForegrounds : ForegroundCode(v)
    \/ \E code \in U8 : ForegroundFrom(code)
    \/ \E code \in U8, ansi_256 \in PaletteSample : ForegroundFrom256(code, ansi_256)
    \/ \E v \in AllBackgrounds : BackgroundCode(v)
    \/ \E code \in U8 : BackgroundFrom(code)
    \/ \E code \in U8, ansi_256 \in PaletteSample : BackgroundFrom256(code, ansi_256)
    \/ \E v \in AllEffects : EffectCode(v)
    \/ \E code \in U8 : EffectFrom(code)
    \/ \E a \in AllForegrounds, b \in AllForegrounds : ForegroundEq(a, b)
    \/ \E a \in AllBackgrounds, b \in AllBackgrounds : BackgroundEq(a, b)
    \/ \E a \in EffectPairSample, b \in EffectPairSample : EffectEq(a, b)

SpecStyle == InitStyle /\ [][NextStyle]_vars

\* ------------------------------------------------------------------ claims

ResetSequence == <<ESC, "[", "0", "m">>

NamedForegroundCodes == (30..37) \cup (90..97)

NamedBackgroundCodes == (40..47) \cup (100..107)

NamedEffectCodes == {0, 1, 2, 3, 4, 5, 6, 9}

\* The largest index of codes whose code lies in family; 0 if there is none.
LastIn(codes, family) ==
    LET at == {i \in 1..Len(codes) : codes[i] \in family}
    IN  IF at = {} THEN 0 ELSE CHOOSE i \in at : \A j \in at : j <= i

\* C1: after new and after every change_text_to and change_style_to, the
\* cached output is present and output() is the current style's command,
\* then the current text, then ESC[0m; it is never the bare text.
C1_OutputConsistent ==
    /\ output # None
    /\ StyledTerminalText_output(Self) = TerminalStyle_wrap(style, text)
    /\ StyledTerminalText_output(Self) = style.command \o text \o ResetSequence

C1_Witness ==
    /\ ret.op = "change_text_to"
    /\ ret.value = <<"0">>
    /\ text = <<"a">>
    /\ style.codes = <<1, 93>>
    /\ output = Some(<<ESC, "[", "1", ";", "9", "3", "m", "a", ESC, "[", "0", "m">>)

\* C2: a style built from the empty code list renders as exactly ESC[0m,
\* the command of the style built from [0], and compares equal to it.
C2_EmptyRendersReset ==
    (call.fn = "from" /\ call.codes = <<>>) =>
        /\ built[1].command = ResetSequence
        /\ built[1].command = TerminalStyle_from(<<0>>).command
        /\ TerminalStyle_eq(built[1], TerminalStyle_from(<<0>>))

\* C3: wrap(text) is the style's own command, then the text, then ESC[0m,
\* for every style (the empty code list included) and every text (the empty
\* text included).
C3_WrapShape ==
    result.fn = "wrap" =>
        result.value = built[1].command \o result.text \o ResetSequence

C3_Witness ==
    /\ result.fn = "wrap"
    /\ built[1].codes = <<>>
    /\ result.text = <<>>
    /\ result.value = <<ESC, "[", "m", ESC, "[", "0", "m">>

\* C4: new(effects, foreground, background) yields the effects' codes in
\* the given order, then the foreground's code (then 5 and the palette index
\* if it is ANSI256), then the background's code (then 5 and the palette
\* index if it is ANSI256), and nothing else.
C4_NewCodeOrder ==
    call.fn = "new" =>
        LET e == call.effects
            f == call.foreground
            b == call.background
            c == built[1].codes
            nf == IF f = None THEN 0 ELSE IF f[1].tag = "ANSI256" THEN 3 ELSE 1
            nb == IF b = None THEN 0 ELSE IF b[1].tag = "ANSI256" THEN 3 ELSE 1
            n == Len(e)
        IN  /\ Len(c) = n + nf + nb
            /\ \A i \in 1..n : c[i] = SGREffect_code(e[i])
            /\ f # None => c[n + 1] = ANSIForegroundColor_code(f[1])
            /\ nf = 3 => c[n + 2] = 5 /\ c[n + 3] = f[1].ansi256
            /\ b # None => c[n + nf + 1] = ANSIBackgroundColor_code(b[1])
            /\ nb = 3 => c[n + nf + 2] = 5 /\ c[n + nf + 3] = b[1].ansi256

C4_Witness ==
    /\ call.fn = "new"
    /\ call.effects = <<Effect("Bold"), Effect("Bold")>>
    /\ call.foreground = Some(FG256(183))
    /\ call.background = Some(BG256(190))
    /\ built[1].codes = <<1, 1, 38, 5, 183, 48, 5, 190>>
    /\ built[1].command =
         <<ESC, "[", "1", ";", "1", ";", "3", "8", ";", "5", ";", "1", "8", "3", ";",
           "4", "8", ";", "5", ";", "1", "9", "0", "m">>

C6_RoundTrip ==
    /\ (result.fn = "ANSIForegroundColor::code" /\ result.self.tag # "ANSI256") =>
          ANSIForegroundColor_from(result.value) = Some(result.self)
    /\ (result.fn = "ANSIBackgroundColor::code" /\ result.self.tag # "ANSI256") =>
          ANSIBackgroundColor_from(result.value) = Some(result.self)
    /\ (result.fn = "SGREffect::code" /\ result.self.tag # "ByCode") =>
          SGREffect_from(result.value) = result.self
    /\ (result.fn = "ANSIForegroundColor::from" /\ result.code \in NamedForegroundCodes) =>
          /\ result.value # None
          /\ ANSIForegroundColor_code(result.value[1]) = result.code
    /\ (result.fn = "ANSIBackgroundColor::from" /\ result.code \in NamedBackgroundCodes) =>
          /\ result.value # None
          /\ ANSIBackgroundColor_code(result.value[1]) = result.code
    /\ (result.fn = "SGREffect::from" /\ result.code \in NamedEffectCodes) =>
          /\ result.value.tag # "ByCode"
          /\ SGREffect_code(result.value) = result.code

C6_Witness ==
    /\ result.fn = "ANSIBackgroundColor::code"
    /\ result.self = BG("BrightYellow")
    /\ result.value = 103
    /\ ANSIBackgroundColor_from(103) = Some(BG("BrightYellow"))

\* C7: the plain lookup of a colour family gives None for every u8 outside
\* the family's named ranges, 38 (foreground) and 48 (background) included.
C7_ColourOutOfRangeIsNone ==
    /\ (result.fn = "ANSIForegroundColor::from" /\ result.code \notin NamedForegroundCodes) =>
          result.value = None
    /\ (result.fn = "ANSIBackgroundColor::from" /\ result.code \notin NamedBackgroundCodes) =>
          result.value = None

C7_Witness ==
    /\ result.fn = "ANSIForegroundColor::from"
    /\ result.code = 38
    /\ result.value = None

\* C8 as stated: decoding a code that is no named effect gives None.
C8_UnnamedEffectIsNone ==
    (result.fn = "SGREffect::from" /\ result.code \notin NamedEffectCodes) =>
        result.value = None

\* C8 amended: decoding a code that is no named effect gives the ByCode
\* variant carrying that code, never an absent result and never a named
\* variant.
C8_UnnamedEffectIsByCode ==
    (result.fn = "SGREffect::from" /\ result.code \notin NamedEffectCodes) =>
        /\ result.value # None
        /\ result.value.tag = "ByCode"
        /\ result.value.code = result.code

C8_Witness ==
    /\ result.fn = "SGREffect::from"
    /\ result.code = 93
    /\ result.value = [tag |-> "ByCode", code |-> 93]

\* C9: styles() has one entry per code, in order; entry i has the code
\* codes()[i], is a named variant exactly for 0-6 and 9 and ByCode(c)
\* otherwise; new(styles(), None, None) has the same code list.
C9_StylesMirrorCodes ==
    result.fn = "styles" =>
        LET c == built[1].codes
            v == result.value
        IN  /\ Len(v) = Len(c)
            /\ \A i \in 1..Len(c) :
                  /\ SGREffect_code(v[i]) = c[i]
                  /\ (v[i].tag \in EffectNames) <=> (c[i] \in NamedEffectCodes)
                  /\ (v[i].tag \notin EffectNames) => v[i] = [tag |-> "ByCode", code |-> c[i]]
            /\ TerminalStyle_new(v, None, None).codes = c

C9_Witness ==
    /\ result.fn = "styles"
    /\ call.fn = "preset"
    /\ call.name = "bright_yellow"
    /\ built[1].codes = <<1, 93>>
    /\ result.value = <<Effect("Bold"), ByCode(93)>>

\* C10: two styles compare equal exactly when their commands are equal, and
\* their commands are equal only if their code lists are the same sequence,
\* however the styles were built.
C10_EqualByCommand ==
    result.fn = "eq" =>
        /\ result.value <=> (built[1].command = result.other.command)
        /\ (built[1].command = result.other.command) =>
              built[1].codes = result.other.codes
        /\ result.value <=> (built[1].codes = result.other.codes)

C10_Witness ==
    /\ result.fn = "eq"
    /\ call.fn = "new"
    /\ call.effects = <<Effect("Normal")>>
    /\ call.foreground = Some(FG("Yellow"))
    /\ call.background = Some(BG("Red"))
    /\ result.other.codes = <<0, 33, 41>>
    /\ result.value = TRUE

\* C11: change_text_to returns the text held just before the call and
\* leaves text() = new_text; change_style_to returns a style with the code
\* list and command of the style held just before the call and leaves
\* style() = new_style; at every step of every sequence of calls.
C11_SettersReturnPrevious ==
    [][/\ ret'.op = "change_text_to" =>
            /\ ret'.value = text
            /\ text' = ret'.arg
       /\ ret'.op = "change_style_to" =>
            /\ ret'.value.codes = style.codes
            /\ ret'.value.command = style.command
            /\ style' = ret'.arg]_vars

C11_Witness ==
    /\ ret.op = "change_style_to"
    /\ before.style.codes = <<1, 93>>
    /\ ret.value = [codes |-> <<1, 93>>,
                    command |-> <<ESC, "[", "1", ";", "9", "3", "m">>]
    /\ ret.arg.codes = <<>>
    /\ style.command = <<ESC, "[", "m">>
    /\ before.text = <<"a", "0">>
    /\ text = <<"a", "0">>

AllNamed(effects) == \A i \in 1..Len(effects) : effects[i].tag \in EffectNames

\* C12: for a style built by new with named effects, a palette-indexed
\* foreground of any index and no background, foreground() is None; and
\* with a palette-indexed background and no foreground, background() is None.
C12_PaletteLookupIsNone ==
    /\ ( /\ call.fn = "new"
         /\ AllNamed(call.effects)
         /\ call.foreground # None
         /\ call.foreground[1].tag = "ANSI256"
         /\ call.background = None
         /\ result.fn = "foreground" ) => result.value = None
    /\ ( /\ call.fn = "new"
         /\ AllNamed(call.effects)
         /\ call.background # None
         /\ call.background[1].tag = "ANSI256"
         /\ call.foreground = None
         /\ result.fn = "background" ) => result.value = None

\* C13: for a style built by new with named effects, a named foreground f
\* and a palette-indexed background, foreground() is Some(f); and with a
\* named background b and a palette-indexed foreground, background() is
\* Some(b): the pair 5, index is never decoded as a colour.
C13_PaletteIndexNotAColour ==
    /\ ( /\ call.fn = "new"
         /\ AllNamed(call.effects)
         /\ call.foreground # None
         /\ call.foreground[1].tag # "ANSI256"
         /\ call.background # None
         /\ call.background[1].tag = "ANSI256"
         /\ result.fn = "foreground" ) => result.value = call.foreground
    /\ ( /\ call.fn = "new"
         /\ AllNamed(call.effects)
         /\ call.background # None
         /\ call.background[1].tag # "ANSI256"
         /\ call.foreground # None
         /\ call.foreground[1].tag = "ANSI256"
         /\ result.fn = "background" ) => result.value = call.background

\* C14 as stated: every code the colours contributed to the code list (the
\* primary code and, for a palette-indexed colour, 5 and the index) is in
\* styles() at the same position as the ByCode variant carrying it.
C14_ColourCodesAreByCode ==
    (call.fn = "new" /\ result.fn = "styles") =>
        LET c == built[1].codes
            v == result.value
        IN  /\ Len(v) = Len(c)
            /\ \A i \in (Len(call.effects) + 1)..Len(c) :
                  v[i] = [tag |-> "ByCode", code |-> c[i]]

\* C14 amended: the primary colour code is in styles() at its position as
\* the ByCode variant carrying it; the palette sub-selector 5 is there as
\* SlowBlink; the palette index is there as the named effect of that number
\* if it is 0-6 or 9 and as the ByCode variant carrying it otherwise.
C14_ColourCodesDecodedAsEffects ==
    (call.fn = "new" /\ result.fn = "styles") =>
        LET e == call.effects
            f == call.foreground
            b == call.background
            c == built[1].codes
            v == result.value
            nf == IF f = None THEN 0 ELSE IF f[1].tag = "ANSI256" THEN 3 ELSE 1
            nb == IF b = None THEN 0 ELSE IF b[1].tag = "ANSI256" THEN 3 ELSE 1
            n == Len(e)
            Primary(i) == v[i] = [tag |-> "ByCode", code |-> c[i]]
            Pair(i, index) ==
                /\ v[i] = [tag |-> "SlowBlink"]
                /\ c[i + 1] = index
                /\ IF index \in NamedEffectCodes
                   THEN v[i + 1].tag \in EffectNames /\ SGREffect_code(v[i + 1]) = index
                   ELSE v[i + 1] = [tag |-> "ByCode", code |-> index]
        IN  /\ Len(v) = Len(c)
            /\ Len(c) = n + nf + nb
            /\ f # None => Primary(n + 1)
            /\ nf = 3 => Pair(n + 2, f[1].ansi256)
            /\ b # None => Primary(n + nf + 1)
            /\ nb = 3 => Pair(n + nf + 2, b[1].ansi256)

C14_Witness ==
    /\ call.fn = "new"
    /\ call.effects = <<Effect("Bold")>>
    /\ call.foreground = Some(FG256(9))
    /\ call.background = Some(BG("Red"))
    /\ built[1].codes = <<1, 38, 5, 9, 41>>
    /\ result.fn = "styles"
    /\ result.value = <<Effect("Bold"), ByCode(38), Effect("SlowBlink"),
                        Effect("CrossedOut"), ByCode(41)>>

\* C15: change_text_to leaves the held style as it was and change_style_to
\* leaves the held text as it was; text(), style() and output() change no
\* field; the text changes only in a change_text_to step and the style only
\* in a change_style_to step.
C15_Frame ==
    [][/\ ret'.op = "change_text_to" =>
            /\ style'.codes = style.codes
            /\ style'.command = style.command
       /\ ret'.op = "change_style_to" => text' = text
       /\ ret'.op \in {"text", "style", "output"} =>
            /\ text' = text
            /\ style' = style
            /\ output' = output
       /\ text' # text => ret'.op = "change_text_to"
       /\ style' # style => ret'.op = "change_style_to"]_vars

C15_Witness ==
    /\ ret.op = "output"
    /\ before.ret.op = "change_style_to"
    /\ before.text = <<"a">>
    /\ text = <<"0", "a">>
    /\ before.style.codes = <<0, 33, 41>>
    /\ style.codes = <<0, 33, 41>>
    /\ ret.value = <<ESC, "[", "0", ";", "3", "3", ";", "4", "1", "m",
                     "0", "a", ESC, "[", "0", "m">>

\* C16: a change_text_to called with the value the preceding change_text_to
\* returned restores text(), the style and output() to what they were
\* before that preceding call; a change_style_to called with the style the
\* preceding change_style_to returned restores text(), the style's code
\* list and command, and output().
C16_UndoRestores ==
    [][/\ ( /\ ret.op = "change_text_to"
            /\ ret'.op = "change_text_to"
            /\ ret'.arg = ret.value ) =>
               /\ text' = before.text
               /\ style' = before.style
               /\ output' = before.output
       /\ ( /\ ret.op = "change_style_to"
            /\ ret'.op = "change_style_to"
            /\ ret'.arg = ret.value ) =>
               /\ text' = before.text
               /\ style'.codes = before.style.codes
               /\ style'.command = before.style.command
               /\ output' = before.output]_vars

C16_Witness ==
    /\ ret.op = "change_style_to"
    /\ before.ret.op = "change_style_to"
    /\ ret.arg = before.ret.value
    /\ before.ret.arg = before.style
    /\ before.style.codes = <<>>
    /\ style.codes = <<1, 38, 5, 183, 48, 5, 190>>
    /\ text = <<"a">>
    /\ output = Some(<<ESC, "[", "1", ";", "3", "8", ";", "5", ";", "1", "8", "3", ";",
                       "4", "8", ";", "5", ";", "1", "9", "0", "m", "a",
                       ESC, "[", "0", "m">>)

\* The decimal digits of a u8, by its number of digits.
Decimal(n) ==
    IF n < 10 THEN <<Digits[n + 1]>>
    ELSE IF n < 100 THEN <<Digits[(n \div 10) + 1], Digits[(n % 10) + 1]>>
    ELSE <<Digits[(n \div 100) + 1], Digits[((n \div 10) % 10) + 1], Digits[(n % 10) + 1]>>

\* The decimal codes from position i on, each after the first preceded by ';'.
RECURSIVE CodesText(_, _)
CodesText(codes, i) ==
    IF i > Len(codes) THEN <<>>
    ELSE (IF i = 1 THEN <<>> ELSE <<";">>) \o Decimal(codes[i]) \o CodesText(codes, i + 1)

WellFormed(s) == s.command = <<ESC, "[">> \o CodesText(s.codes, 1) \o <<"m">>

\* C17: every TerminalStyle (built by from, new, new_empty or a preset,
\* cloned, held by a StyledTerminalText or returned from it after any
\* sequence of setter calls) has command = ESC[ + its decimal codes joined
\* by ';' + m, and its code list is the one it was constructed with.
C17_CommandFollowsCodes ==
    /\ WellFormed(style)
    /\ WellFormed(before.style)
    /\ \A sty \in SampleStyles : WellFormed(sty)
    /\ ret.op = "change_style_to" =>
          /\ WellFormed(ret.arg)
          /\ WellFormed(ret.value)
          /\ ret.value.codes = before.style.codes
          /\ style.codes = ret.arg.codes
    /\ ret.op = "change_text_to" => style.codes = before.style.codes
    /\ ret.op = "style" =>
          /\ WellFormed(ret.value)
          /\ ret.value.codes = style.codes

C17_Witness ==
    /\ ret.op = "change_style_to"
    /\ before.ret.op = "change_style_to"
    /\ before.style.codes = <<1, 38, 5, 183, 48, 5, 190>>
    /\ ret.value.codes = <<1, 38, 5, 183, 48, 5, 190>>
    /\ ret.value.command =
         <<ESC, "[", "1", ";", "3", "8", ";", "5", ";", "1", "8", "3", ";",
           "4", "8", ";", "5", ";", "1", "9", "0", "m">>
    /\ style = [codes |-> <<>>, command |-> <<ESC, "[", "m">>]

\* C18: if two attributes of a family compare equal, the styles built with
\* the one and with the other in the same position, all other arguments
\* equal, have the same code list and compare equal; two ANSI256 colours
\* and a ByCode effect against a named effect included.
C18_EqualAttributesBuildEqualStyles ==
    /\ (result.fn = "ANSIForegroundColor::eq" /\ result.value) =>
          \A e \in EffectLists, b \in BackgroundSample :
              LET x == TerminalStyle_new(e, Some(result.self), b)
                  y == TerminalStyle_new(e, Some(result.other), b)
              IN  x.codes = y.codes /\ TerminalStyle_eq(x, y)
    /\ (result.fn = "ANSIBackgroundColor::eq" /\ result.value) =>
          \A e \in EffectLists, f \in ForegroundSample :
              LET x == TerminalStyle_new(e, f, Some(result.self))
                  y == TerminalStyle_new(e, f, Some(result.other))
              IN  x.codes = y.codes /\ TerminalStyle_eq(x, y)
    /\ (result.fn = "SGREffect::eq" /\ result.value) =>
          \A f \in ForegroundSample, b \in BackgroundSample :
              LET x == TerminalStyle_new(<<result.self>>, f, b)
                  y == TerminalStyle_new(<<result.other>>, f, b)
              IN  x.codes = y.codes /\ TerminalStyle_eq(x, y)

====
